---------------------------- MODULE Spec2Model ----------------------------
(***************************************************************************)
(* A model of src/app.py, the "Pending on Doctors" report script.          *)
(*                                                                         *)
(* One run of the script is one behaviour: the uploaded table and the      *)
(* threshold are chosen in Init, and each statement of the script body     *)
(* (lines 30-150) is one action.  An exception raised by a statement ends  *)
(* the run (pc = "error"): the script has no try/except.                   *)
(*                                                                         *)
(* Text is a sequence of one-character strings, so that str.lower and the  *)
(* ordering of doctor names are computed and not assumed.  A cell of the   *)
(* table is a tagged record: text, integer, timestamp, NaN or NaT.         *)
(***************************************************************************)
EXTENDS Integers, Sequences, FiniteSets, TLC

VARIABLES uploaded_file, pending_threshold, df, today, summary_df,
          pdf_output, ui, executed, pc, error

vars == <<uploaded_file, pending_threshold, df, today, summary_df,
          pdf_output, ui, executed, pc, error>>

---------------------------------------------------------------------------
(* Bounds of the model *)

\* most rows in an uploaded sheet
MaxRows == 2
\* oldest claim, in days before the day of the run
MaxDays == 3
\* largest threshold tried; the widget allows up to 365
MaxThreshold == 2

\* number_input(min_value=1)
MinThreshold == 1

---------------------------------------------------------------------------
(* Cells *)

NaN == [kind |-> "nan"]
NaT == [kind |-> "nat"]
None == [kind |-> "none"]
StrCell(s) == [kind |-> "str", val |-> s]
IntCell(n) == [kind |-> "int", val |-> n]
\* a timestamp, in hours since an epoch (day * 24 + hour of day)
Timestamp(h) == [kind |-> "ts", val |-> h]

HoursPerDay == 24

---------------------------------------------------------------------------
(* Text *)

UpperCase == <<"A","B","C","D","E","F","G","H","I","J","K","L","M",
               "N","O","P","Q","R","S","T","U","V","W","X","Y","Z">>
LowerCase == <<"a","b","c","d","e","f","g","h","i","j","k","l","m",
               "n","o","p","q","r","s","t","u","v","w","x","y","z">>

IsUpper(c) == \E i \in 1..Len(UpperCase) : UpperCase[i] = c
IsLetter(c) == \E i \in 1..Len(UpperCase) : UpperCase[i] = c \/ LowerCase[i] = c

LowerChar(c) ==
    IF IsUpper(c)
    THEN LowerCase[CHOOSE i \in 1..Len(UpperCase) : UpperCase[i] = c]
    ELSE c

\* str.lower()
lower(s) == [i \in 1..Len(s) |-> LowerChar(s[i])]

\* Series.str.lower(): NaN for a cell that holds no text
str_lower(cell) == IF cell.kind = "str" THEN StrCell(lower(cell.val)) ELSE NaN

\* the literal of line 36
IN_PROGRESS == <<"i","n"," ","p","r","o","g","r","e","s","s">>

\* the code points of the characters, for the order of Python strings
CodePoint(c) ==
    CASE c = " " -> 32
      [] c = "." -> 46
      [] c = "<" -> 60
      [] c = ">" -> 62
      [] IsUpper(c) -> 64 + (CHOOSE i \in 1..Len(UpperCase) : UpperCase[i] = c)
      [] OTHER -> 96 + (CHOOSE i \in 1..Len(LowerCase) : LowerCase[i] = c)

RECURSIVE StrLess(_, _)
\* s < t for Python strings: lexicographic by code point
StrLess(s, t) ==
    IF t = <<>> THEN FALSE
    ELSE IF s = <<>> THEN TRUE
    ELSE IF s[1] # t[1] THEN CodePoint(s[1]) < CodePoint(t[1])
    ELSE StrLess(Tail(s), Tail(t))


---------------------------------------------------------------------------
(* The uploaded sheets *)

\* a header cell of the sheet: a column name with the blanks around it
Header(lead, name, trail) == [lead |-> lead, name |-> name, trail |-> trail]
Column(name) == Header("", name, "")

\* Index.str.strip() on one label
strip(h) == [h EXCEPT !.lead = "", !.trail = ""]

REQUIRED == <<"claimStatus", "assigned_to_doctor", "claim_id", "last_updated_at">>

DR_A == <<"D","r","."," ","A">>
DR_B == <<"D","r","."," ","B">>
\* a name that is not valid paragraph markup
DR_MARKUP == <<"<","D","r",">">>

ST_TITLE == <<"I","n"," ","P","r","o","g","r","e","s","s">>
ST_PADDED == IN_PROGRESS \o <<" ">>
ST_CLOSED == <<"C","l","o","s","e","d">>
NOT_A_DATE == <<"n","/","a">>

\* the day of the run, as a day number; day 0 is MaxDays days old
RunDay == MaxDays
\* datetime.today() may fall at any hour of the run's day
Clock == {RunDay * HoursPerDay, RunDay * HoursPerDay + 9}

Midnights == {Timestamp(d * HoursPerDay) : d \in 0..(RunDay + 1)}
DateCells == Midnights \cup {Timestamp((RunDay - 1) * HoursPerDay + 15),
                             Timestamp(RunDay * HoursPerDay + 10)}

Row(s, d, c, u) ==
    [claimStatus |-> s, assigned_to_doctor |-> d, claim_id |-> c,
     last_updated_at |-> u]

\* rows that differ in their status
StatusRows ==
    {Row(s, d, IntCell(0), Timestamp(0)) :
        s \in {StrCell(ST_TITLE), StrCell(IN_PROGRESS), StrCell(ST_PADDED),
               StrCell(ST_CLOSED), NaN},
        d \in {StrCell(DR_A), StrCell(DR_B)}}

\* in-progress rows that differ in their date: a date cell of the sheet, a
\* blank cell, or text that is no date
DateRows ==
    {Row(StrCell(ST_TITLE), d, IntCell(0), u) :
        d \in {StrCell(DR_A), StrCell(DR_B)},
        u \in DateCells \cup {NaN, StrCell(NOT_A_DATE)}}

\* in-progress rows with blank cells or a name that is markup
BlankRows ==
    {Row(StrCell(ST_TITLE), d, c, u) :
        d \in {StrCell(DR_A), NaN, StrCell(DR_MARKUP)},
        c \in {IntCell(0), NaN},
        u \in {Timestamp(0), Timestamp(RunDay * HoursPerDay)}}

SeqsUpTo(S, n) == UNION {[1..k -> S] : k \in 0..n}

\* claim ids are numbered by position where the cell is not blank
Numbered(t) ==
    [i \in 1..Len(t) |->
        IF t[i].claim_id = NaN THEN t[i]
        ELSE [t[i] EXCEPT !.claim_id = IntCell(100 + i)]]

Tables ==
    {Numbered(t) : t \in SeqsUpTo(StatusRows, MaxRows)
                         \cup SeqsUpTo(DateRows, MaxRows)
                         \cup SeqsUpTo(BlankRows, MaxRows)}

ExactHeaders == [k \in 1..Len(REQUIRED) |-> Column(REQUIRED[k])]
PaddedHeaders == [k \in 1..Len(REQUIRED) |-> Header(" ", REQUIRED[k], "  ")]

RECURSIVE Without(_, _)
\* the sequence s with its k-th element left out
Without(s, k) ==
    IF s = <<>> THEN <<>>
    ELSE IF k = 1 THEN Tail(s)
    ELSE <<Head(s)>> \o Without(Tail(s), k - 1)

HeaderVariants ==
    {PaddedHeaders, ExactHeaders \o <<Column("notes")>>, <<Column("notes")>>, <<>>}
    \cup {Without(ExactHeaders, k) : k \in 1..Len(REQUIRED)}

\* the tables tried under every header variant
HeaderTables ==
    {Numbered(t) : t \in
        {<<>>,
         <<Row(StrCell(ST_TITLE), StrCell(DR_A), IntCell(0), Timestamp(0))>>,
         <<Row(StrCell(ST_TITLE), StrCell(DR_A), IntCell(0), StrCell(NOT_A_DATE))>>,
         <<Row(NaN, StrCell(DR_A), IntCell(0), Timestamp(0))>>}}

\* the sheet with these headers: a column is there only under its header
Sheet(headers, t) ==
    [columns |-> headers,
     rows |-> [i \in 1..Len(t) |->
                 [c \in {headers[k].name : k \in 1..Len(headers)} |->
                     IF c \in DOMAIN t[i] THEN t[i][c] ELSE NaN]]]

Uploads ==
    {Sheet(ExactHeaders, t) : t \in Tables}
    \cup {Sheet(h, t) : h \in HeaderVariants, t \in HeaderTables}

---------------------------------------------------------------------------
(* The run *)

STAGES == <<"load", "filter", "to_datetime", "days", "project", "sort",
            "success", "aggregate", "show_summary", "generate_pdf",
            "download_button", "preview">>

NoError == [type |-> "none", at |-> "none"]
EmptyFrame == [columns |-> <<>>, rows |-> <<>>]

Init ==
    /\ uploaded_file \in Uploads \cup {None}
    /\ pending_threshold \in MinThreshold..MaxThreshold
    /\ df = EmptyFrame
    /\ today = None
    /\ summary_df = <<>>
    /\ pdf_output = None
    /\ ui = <<>>
    /\ executed = <<>>
    /\ pc = "upload"
    /\ error = NoError

\* an exception that is swallowed: the script goes on with the next statement
RaiseAndCarryOn(type) ==
    /\ pc' = STAGES[(CHOOSE k \in 1..Len(STAGES) : STAGES[k] = pc) + 1]
    /\ error' = [type |-> type, at |-> pc]

\* an uncaught exception ends the script run
Raise(type) ==
    /\ pc' = "error"
    /\ error' = [type |-> type, at |-> pc]

\* the statement completed; control moves to the next one
Goto(next) ==
    /\ pc' = next
    /\ executed' = Append(executed, pc)
    /\ error' = error

HasColumn(frame, name) ==
    \E k \in 1..Len(frame.columns) : frame.columns[k] = Column(name)

\* the dtype read_excel gives a column: object when the sheet has no row or
\* the column holds some text, float64 when every cell is blank.  The .str
\* accessor of line 36 raises AttributeError on a column that is not object
IsObjectColumn(rows, name) ==
    rows = <<>> \/ \E i \in 1..Len(rows) : rows[i][name].kind = "str"

\* line 26: without an upload the body is skipped
CheckUpload ==
    /\ pc = "upload"
    /\ pc' = IF uploaded_file = None THEN "done" ELSE "load"
    /\ UNCHANGED <<uploaded_file, pending_threshold, df, today, summary_df,
                   pdf_output, ui, executed, error>>

\* lines 30-31
read_excel(file) ==
    [columns |-> file.columns,
     rows |-> [i \in 1..Len(file.rows) |-> file.rows[i] @@ ("index" :> i - 1)]]

Load ==
    /\ pc = "load"
    /\ df' = [read_excel(uploaded_file) EXCEPT
                !.columns = [k \in 1..Len(@) |-> strip(@[k])]]
    /\ Goto("filter")
    /\ UNCHANGED <<uploaded_file, pending_threshold, today, summary_df,
                   pdf_output, ui>>

\* line 36: the mask of the filter
IsInProgress(row) == str_lower(row.claimStatus) = StrCell(IN_PROGRESS)

Filter ==
    /\ pc = "filter"
    /\ IF ~HasColumn(df, "claimStatus")
       THEN Raise("KeyError") /\ UNCHANGED <<df, executed>>
       ELSE IF ~IsObjectColumn(df.rows, "claimStatus")
       THEN Raise("AttributeError") /\ UNCHANGED <<df, executed>>
       ELSE /\ df' = [df EXCEPT !.rows = SelectSeq(@, IsInProgress)]
            /\ Goto("to_datetime")
    /\ UNCHANGED <<uploaded_file, pending_threshold, today, summary_df,
                   pdf_output, ui>>

\* line 41: pd.to_datetime of one cell: a date cell stays, time of day
\* included, and a blank cell becomes NaT; text that is no date raises
to_datetime(cell) == IF cell.kind = "ts" THEN cell ELSE NaT

ToDatetime ==
    /\ pc = "to_datetime"
    /\ IF ~HasColumn(df, "last_updated_at")
       THEN Raise("KeyError") /\ UNCHANGED <<df, executed>>
       ELSE IF \E i \in 1..Len(df.rows) : df.rows[i].last_updated_at.kind = "str"
       THEN Raise("ParserError") /\ UNCHANGED <<df, executed>>
       ELSE /\ df' = [df EXCEPT !.rows = [i \in 1..Len(@) |->
                        [@[i] EXCEPT !.last_updated_at = to_datetime(@)]]]
            /\ Goto("days")
    /\ UNCHANGED <<uploaded_file, pending_threshold, today, summary_df,
                   pdf_output, ui>>

\* line 42: pd.Timestamp(datetime.today().date()), midnight of the clock's day
TodayOf(now) == Timestamp((now \div HoursPerDay) * HoursPerDay)

\* line 43: (today - last_updated_at).dt.days, the floor of the difference
\* in days; NaN for NaT
DaysBetween(t, u) ==
    IF u.kind = "ts" THEN IntCell((t.val - u.val) \div HoursPerDay) ELSE NaN

Days ==
    /\ pc = "days"
    /\ \E now \in Clock :
        /\ today' = TodayOf(now)
        /\ df' = [columns |-> Append(df.columns, Column("days_since_updated")),
                  rows |-> [i \in 1..Len(df.rows) |->
                     df.rows[i] @@ ("days_since_updated" :>
                        DaysBetween(TodayOf(now), df.rows[i].last_updated_at))]]
    /\ Goto("project")
    /\ UNCHANGED <<uploaded_file, pending_threshold, summary_df, pdf_output, ui>>

\* line 45
KEPT == <<"assigned_to_doctor", "claim_id", "days_since_updated">>

Project ==
    /\ pc = "project"
    /\ IF \E k \in 1..Len(KEPT) : ~HasColumn(df, KEPT[k])
       THEN Raise("KeyError") /\ UNCHANGED <<df, executed>>
       ELSE /\ df' = [columns |-> [k \in 1..Len(KEPT) |-> Column(KEPT[k])],
                      rows |-> [i \in 1..Len(df.rows) |->
                         [c \in {KEPT[k] : k \in 1..Len(KEPT)} \cup {"index"} |->
                             df.rows[i][c]]]]
            /\ Goto("sort")
    /\ UNCHANGED <<uploaded_file, pending_threshold, today, summary_df,
                   pdf_output, ui>>

\* line 47: the order of sort_values, by doctor ascending, then by days
\* descending; a blank key sorts last under either direction
DoctorLess(a, b) ==
    /\ a.kind = "str"
    /\ b.kind = "str" => StrLess(a.val, b.val)

DaysGreater(a, b) ==
    /\ a.kind = "int"
    /\ b.kind = "int" => a.val > b.val

RowBefore(r, q) ==
    \/ DoctorLess(r.assigned_to_doctor, q.assigned_to_doctor)
    \/ /\ r.assigned_to_doctor = q.assigned_to_doctor
       /\ DaysGreater(r.days_since_updated, q.days_since_updated)

RECURSIVE InsertUnstable(_, _)
\* an insertion that puts r before the rows of equal keys
InsertUnstable(sorted, r) ==
    IF sorted = <<>> THEN <<r>>
    ELSE IF ~RowBefore(Head(sorted), r) THEN <<r>> \o sorted
    ELSE <<Head(sorted)>> \o InsertUnstable(Tail(sorted), r)

RECURSIVE Insert(_, _)
\* r goes after every row it does not sort before: equal keys keep their order
Insert(sorted, r) ==
    IF sorted = <<>> THEN <<r>>
    ELSE IF RowBefore(r, Head(sorted)) THEN <<r>> \o sorted
    ELSE <<Head(sorted)>> \o Insert(Tail(sorted), r)

RECURSIVE SortFrom(_, _)
SortFrom(sorted, rows) ==
    IF rows = <<>> THEN sorted
    ELSE SortFrom(Insert(sorted, Head(rows)), Tail(rows))

sort_values(rows) == SortFrom(<<>>, rows)

Sort ==
    /\ pc = "sort"
    /\ df' = [df EXCEPT !.rows = sort_values(@)]
    /\ Goto("success")
    /\ UNCHANGED <<uploaded_file, pending_threshold, today, summary_df,
                   pdf_output, ui>>

\* line 49
Success ==
    /\ pc = "success"
    /\ ui' = Append(ui, [widget |-> "success"])
    /\ Goto("aggregate")
    /\ UNCHANGED <<uploaded_file, pending_threshold, df, today, summary_df,
                   pdf_output>>

RECURSIVE SortedKeys(_)
SortedKeys(S) ==
    IF S = {} THEN <<>>
    ELSE LET least == CHOOSE k \in S :
                        \A o \in S \ {k} : StrLess(k.val, o.val)
         IN <<least>> \o SortedKeys(S \ {least})

\* lines 54 and 101: groupby("assigned_to_doctor"): the groups in ascending
\* key order, each with its rows in the frame's order; blank keys are dropped
groupby(rows) ==
    LET keys == {rows[i].assigned_to_doctor : i \in 1..Len(rows)} \ {NaN}
        order == SortedKeys(keys)
    IN [g \in 1..Len(order) |->
          [key |-> order[g],
           rows |-> SelectSeq(rows, LAMBDA r : r.assigned_to_doctor = order[g])]]

\* line 55: "count" counts the cells that are not blank
count(rows) == Len(SelectSeq(rows, LAMBDA r : r.claim_id # NaN))

\* line 56: x > pending_threshold; a comparison with NaN is false
SeriesGt(cell, threshold) == cell.kind = "int" /\ cell.val > threshold

overdue_count(rows, threshold) ==
    Len(SelectSeq(rows, LAMBDA r : SeriesGt(r.days_since_updated, threshold)))

\* lines 54-57
Summarise(rows, threshold) ==
    LET groups == groupby(rows)
    IN [g \in 1..Len(groups) |->
          [assigned_to_doctor |-> groups[g].key,
           total_claims |-> count(groups[g].rows),
           overdue_claims |-> overdue_count(groups[g].rows, threshold)]]

Aggregate ==
    /\ pc = "aggregate"
    /\ summary_df' = Summarise(df.rows, pending_threshold)
    /\ Goto("show_summary")
    /\ UNCHANGED <<uploaded_file, pending_threshold, df, today, pdf_output, ui>>

\* lines 59-60
ShowSummary ==
    /\ pc = "show_summary"
    /\ ui' = Append(ui, [widget |-> "summary", data |-> summary_df])
    /\ Goto("generate_pdf")
    /\ UNCHANGED <<uploaded_file, pending_threshold, df, today, summary_df,
                   pdf_output>>

\* line 111: the text f"{days} (mark)"; str() of a number carries no mark
MARK == "overdue-mark"
Text(cell, rest) == [kind |-> "text", of |-> cell, rest |-> rest]
Marked(days) == Text(days, <<" ", MARK>>)
str(value) == IF value.kind = "text" THEN value ELSE Text(value, <<>>)

\* line 126: "(mark)" in str(row[1])
HasMark(value) ==
    LET t == str(value) IN \E i \in 1..Len(t.rest) : t.rest[i] = MARK

\* the test of line 109 with >= in place of >
IsOverdueAtLeast(days, threshold) == days.kind = "int" /\ days.val >= threshold

\* line 109: days > pending_threshold
IsOverdue(days, threshold) == days.kind = "int" /\ days.val > threshold

\* lines 107-114: the rows of one doctor's table
DetailRows(rows, threshold) ==
    [i \in 1..Len(rows) |->
        IF IsOverdue(rows[i].days_since_updated, threshold)
        THEN <<rows[i].claim_id, Marked(rows[i].days_since_updated)>>
        ELSE <<rows[i].claim_id, rows[i].days_since_updated>>]

\* lines 125-127: the rows given the pink background, numbered as in
\* table_data, where row 0 is the header
Highlighted(table_data) ==
    {i \in 1..(Len(table_data) - 1) : HasMark(table_data[i + 1][2])}

\* lines 101-131
Section(group, threshold) ==
    LET table_data == <<<<"Claim ID", "Days since updated">>>>
                        \o DetailRows(group.rows, threshold)
    IN [heading |-> group.key,
        table_data |-> table_data,
        background |-> Highlighted(table_data)]

\* line 102: a Paragraph raises on text that opens a tag it does not know
InvalidMarkup(text) ==
    \E i \in 1..(Len(text) - 1) : text[i] = "<" /\ IsLetter(text[i + 1])

\* lines 79-88
SummaryTable(summarydata, threshold) ==
    <<<<"Doctor", "Total Claims", [pending_over |-> threshold]>>>>
    \o [k \in 1..Len(summarydata) |->
          <<summarydata[k].assigned_to_doctor, summarydata[k].total_claims,
            summarydata[k].overdue_claims>>]

\* lines 65-135: the story built into the buffer
Story(dataframe, summarydata, threshold) ==
    LET groups == groupby(dataframe.rows)
    IN [title |-> "Pending on Doctors - Report",
        summary_table |-> SummaryTable(summarydata, threshold),
        sections |-> [g \in 1..Len(groups) |-> Section(groups[g], threshold)]]

\* line 137
GeneratePdf ==
    /\ pc = "generate_pdf"
    /\ LET groups == groupby(df.rows)
       IN IF \E g \in 1..Len(groups) : InvalidMarkup(groups[g].key.val)
          THEN Raise("ValueError") /\ UNCHANGED <<pdf_output, executed>>
          ELSE /\ pdf_output' = Story(df, summary_df, pending_threshold)
               /\ Goto("download_button")
    /\ UNCHANGED <<uploaded_file, pending_threshold, df, today, summary_df, ui>>

\* lines 142-147
DownloadButton ==
    /\ pc = "download_button"
    /\ ui' = Append(ui, [widget |-> "download_button", data |-> pdf_output])
    /\ Goto("preview")
    /\ UNCHANGED <<uploaded_file, pending_threshold, df, today, summary_df,
                   pdf_output>>

\* lines 149-150
Preview ==
    /\ pc = "preview"
    /\ ui' = Append(ui, [widget |-> "preview", data |-> df])
    /\ Goto("done")
    /\ UNCHANGED <<uploaded_file, pending_threshold, df, today, summary_df,
                   pdf_output>>

Next == CheckUpload \/ Load \/ Filter \/ ToDatetime \/ Days \/ Project \/ Sort
        \/ Success \/ Aggregate \/ ShowSummary \/ GeneratePdf
        \/ DownloadButton \/ Preview

Spec == Init /\ [][Next]_vars

---------------------------------------------------------------------------
(* What the claims are stated over *)

Range(s) == {s[i] : i \in 1..Len(s)}
Done(stage) == stage \in Range(executed)

\* the rows of the uploaded sheet, and whether row i is still in df
Uploaded == IF uploaded_file = None THEN <<>> ELSE uploaded_file.rows
Kept(i) == \E j \in 1..Len(df.rows) : df.rows[j].index = i - 1

IsBlank(c) == c = " "

RECURSIVE TrimLeft(_)
TrimLeft(s) ==
    IF s # <<>> /\ IsBlank(Head(s)) THEN TrimLeft(Tail(s)) ELSE s

RECURSIVE TrimRight(_)
TrimRight(s) ==
    IF s # <<>> /\ IsBlank(s[Len(s)])
    THEN TrimRight(SubSeq(s, 1, Len(s) - 1)) ELSE s

\* a status cell that reads "in progress" once lower-cased and trimmed
Normalised(cell) ==
    cell.kind = "str" /\ TrimRight(TrimLeft(lower(cell.val))) = IN_PROGRESS

AllRequiredPresent ==
    /\ uploaded_file # None
    /\ \A k \in 1..Len(REQUIRED) :
         \E h \in 1..Len(uploaded_file.columns) :
            strip(uploaded_file.columns[h]) = Column(REQUIRED[k])

RowsOf(doctor) ==
    SelectSeq(df.rows, LAMBDA r : r.assigned_to_doctor = doctor)

Offered == \E k \in 1..Len(ui) : ui[k].widget = "download_button"

\* C1: after the filter step a record of the sheet is kept if and only if
\* its status, lower-cased and trimmed, is "in progress".
C1_KeptIffNormalisedInProgress ==
    Done("filter") =>
        \A i \in 1..Len(Uploaded) :
            Kept(i) <=> Normalised(Uploaded[i].claimStatus)

\* C2: days_since_updated of a kept record is the number of calendar days
\* from the date of last_updated_at, its time of day dropped, to today.
C2_DaysAreCalendarDayDifference ==
    Done("days") =>
        \A j \in 1..Len(df.rows) :
            LET u == Uploaded[df.rows[j].index + 1].last_updated_at
            IN u.kind = "ts" =>
                 df.rows[j].days_since_updated =
                    IntCell((today.val \div HoursPerDay)
                              - (u.val \div HoursPerDay))

\* C3: each summary row's total_claims is the number of filtered claims of
\* that doctor, whatever their other fields hold.
C3_TotalCountsEveryClaimOfDoctor ==
    Done("aggregate") =>
        \A k \in 1..Len(summary_df) :
            summary_df[k].total_claims
                = Len(RowsOf(summary_df[k].assigned_to_doctor))

\* C4: in every summary row overdue_claims is at most total_claims.
C4_OverdueAtMostTotal ==
    \A k \in 1..Len(summary_df) :
        summary_df[k].overdue_claims <= summary_df[k].total_claims


\* the days of a detail cell, whether or not it carries the mark
DaysOf(value) == str(value).of

\* the rows of one doctor that are overdue under threshold t, by position
ExpectedOverdue(rows, t) ==
    {i \in 1..Len(rows) :
        /\ rows[i].days_since_updated.kind = "int"
        /\ ~(rows[i].days_since_updated.val <= t)}

\* summary and story give every row of every doctor the same verdict, the
\* strict one: marked, coloured and counted exactly when days > t
SameVerdict(rows, summary, story, t) ==
    /\ Len(summary) = Len(story.sections)
    /\ \A g \in 1..Len(story.sections) :
        LET sec == story.sections[g]
            mine == SelectSeq(rows, LAMBDA r : r.assigned_to_doctor = sec.heading)
        IN /\ Len(sec.table_data) = Len(mine) + 1
           /\ \A i \in 1..Len(mine) :
                /\ HasMark(sec.table_data[i + 1][2]) <=> i \in ExpectedOverdue(mine, t)
                /\ i \in sec.background <=> i \in ExpectedOverdue(mine, t)
           /\ sec.background \subseteq 1..Len(mine)
           /\ summary[g].assigned_to_doctor = sec.heading
           /\ summary[g].overdue_claims = Cardinality(sec.background)
           /\ summary[g].overdue_claims = Cardinality(ExpectedOverdue(mine, t))

\* thresholds outside the widget's range, for the two computations taken
\* as functions of the threshold
AnyThreshold == (0 - MaxThreshold)..(MaxThreshold + 1)

\* C5: the summary and the detail tables apply the same strict test
\* days_since_updated > threshold: in the built report each doctor's number
\* of marked and coloured rows is that doctor's overdue_claims, and a row is
\* marked exactly when its days exceed the threshold; the same holds of the
\* two computations at any threshold, zero and negative ones included.
C5_SummaryAndDetailAgree ==
    /\ pdf_output # None =>
          SameVerdict(df.rows, summary_df, pdf_output, pending_threshold)
    /\ pc = "generate_pdf" =>
          \A t \in AnyThreshold :
             SameVerdict(df.rows, Summarise(df.rows, t),
                         Story(df, Summarise(df.rows, t), t), t)

\* C5 witness: a built report where one doctor has a marked row and an
\* unmarked row whose days equal the threshold
C5_Witness ==
    /\ pdf_output # None
    /\ \E g \in 1..Len(pdf_output.sections) :
         LET sec == pdf_output.sections[g]
         IN /\ sec.background # {}
            /\ \E i \in 1..(Len(sec.table_data) - 1) :
                 /\ i \notin sec.background
                 /\ DaysOf(sec.table_data[i + 1][2]) = IntCell(pending_threshold)

\* C6: once sorted, df is ordered by doctor ascending, then by days
\* descending (blank keys last), rows with equal keys keep the order of the
\* sheet, and each doctor's detail table lists that doctor's rows in this
\* order.
C6_SortedAndStable ==
    /\ Done("sort") =>
         /\ {df.rows[j].index : j \in 1..Len(df.rows)}
               = {i - 1 : i \in {k \in 1..Len(Uploaded) :
                                   IsInProgress(Uploaded[k])}}
         /\ \A i, j \in 1..Len(df.rows) :
              i < j =>
                LET a == df.rows[i]
                    b == df.rows[j]
                IN /\ a.assigned_to_doctor = NaN => b.assigned_to_doctor = NaN
                   /\ (a.assigned_to_doctor # NaN /\ b.assigned_to_doctor # NaN)
                        => ~StrLess(b.assigned_to_doctor.val,
                                    a.assigned_to_doctor.val)
                   /\ a.assigned_to_doctor = b.assigned_to_doctor =>
                        /\ a.days_since_updated = NaN
                              => b.days_since_updated = NaN
                        /\ (a.days_since_updated # NaN
                              /\ b.days_since_updated # NaN)
                              => a.days_since_updated.val
                                    >= b.days_since_updated.val
                        /\ a.days_since_updated = b.days_since_updated
                              => a.index < b.index
    /\ pdf_output # None =>
         \A g \in 1..Len(pdf_output.sections) :
            LET sec == pdf_output.sections[g]
                mine == RowsOf(sec.heading)
            IN /\ Len(sec.table_data) = Len(mine) + 1
               /\ \A i \in 1..Len(mine) :
                    /\ sec.table_data[i + 1][1] = mine[i].claim_id
                    /\ DaysOf(sec.table_data[i + 1][2])
                          = mine[i].days_since_updated

\* C6 witness: a built report with two claims of one doctor of equal days
C6_Witness ==
    /\ pdf_output # None
    /\ \E i, j \in 1..Len(df.rows) :
         /\ i < j
         /\ df.rows[i].assigned_to_doctor = df.rows[j].assigned_to_doctor
         /\ df.rows[i].days_since_updated = df.rows[j].days_since_updated
         /\ df.rows[i].days_since_updated # NaN

\* C7: the report has one detail section per doctor of the filtered claims
\* in ascending order, the doctors of the sections are those of the summary
\* rows, and every row of the preview is a row of the section of its doctor.
C7_EveryClaimInOneSection ==
    pdf_output # None =>
        /\ {pdf_output.sections[g].heading : g \in 1..Len(pdf_output.sections)}
              = {summary_df[k].assigned_to_doctor : k \in 1..Len(summary_df)}
        /\ \A g, h \in 1..Len(pdf_output.sections) :
              g < h => StrLess(pdf_output.sections[g].heading.val,
                               pdf_output.sections[h].heading.val)
        /\ \A j \in 1..Len(df.rows) :
              Cardinality({g \in 1..Len(pdf_output.sections) :
                  pdf_output.sections[g].heading
                     = df.rows[j].assigned_to_doctor}) = 1
        /\ \A g \in 1..Len(pdf_output.sections) :
              Len(pdf_output.sections[g].table_data) - 1
                 = Len(RowsOf(pdf_output.sections[g].heading))

\* C8: a sheet with the required columns and no "in progress" row runs to
\* the end without an error and offers a report with the title, a summary
\* table without doctor rows, and no detail section.
C8_EmptyReportWithoutError ==
    (AllRequiredPresent
       /\ \A i \in 1..Len(Uploaded) : ~Normalised(Uploaded[i].claimStatus))
    => /\ pc # "error"
       /\ pc = "done" =>
            /\ Offered
            /\ pdf_output # None
            /\ pdf_output.title # ""
            /\ Len(pdf_output.summary_table) = 1
            /\ pdf_output.sections = <<>>

\* the stages before the given one, in script order
Before(stage) ==
    SubSeq(STAGES, 1, (CHOOSE k \in 1..Len(STAGES) : STAGES[k] = stage) - 1)

\* C9: a run in which a stage fails stops at that stage: the stages before
\* it are all that ran, nothing runs afterwards, and no download is
\* offered; a download is offered only after the report was built, with the
\* built report as its data.
C9_FailureAbortsAndOffersNoPdf ==
    /\ error # NoError =>
         /\ pc = "error"
         /\ executed = Before(error.at)
         /\ ~Offered
         /\ ~ENABLED Next
    /\ pc = "error" => error # NoError
    /\ \A k \in 1..Len(ui) :
         ui[k].widget = "download_button" =>
            /\ Done("generate_pdf")
            /\ pdf_output # None
            /\ ui[k].data = pdf_output
            /\ error = NoError

\* C9 witness: the report could not be rendered, after the summary was shown
C9_Witness ==
    /\ pc = "error"
    /\ error.at = "generate_pdf"
    /\ \E k \in 1..Len(ui) : ui[k].widget = "summary"

PROCESSING == {"filter", "to_datetime", "days", "project", "sort", "aggregate"}

\* C10: when a required column is missing after the names are trimmed, no
\* processing step runs and nothing is shown, and the run ends in a schema
\* error.
C10_MissingColumnFailsBeforeProcessing ==
    (uploaded_file # None /\ ~AllRequiredPresent) =>
        /\ Range(executed) \cap PROCESSING = {}
        /\ ui = <<>>
        /\ pc # "done"
        /\ pc = "error" => error.type = "KeyError"

===========================================================================
